---- MODULE Spec2Model ----
(***************************************************************************)
(* A model of the ray tracer: the vector algebra (la.rs), the primitives,  *)
(* the scene container and the materials (objects.rs), the camera          *)
(* (camera.rs) and the integrator and render driver (main.rs).             *)
(*                                                                         *)
(* f64 is modelled as fixed point: an integer n stands for n / Scale.      *)
(* Every multiplication, division and square root rounds its exact result  *)
(* to the grid, to nearest and symmetrically in the sign, as IEEE-754      *)
(* rounds to the nearest double; additions are exact on the grid.  NaN and *)
(* infinities other than the t_max of ray_color are not modelled: the      *)
(* inputs are chosen so that no zero-length vector is normalised.          *)
(***************************************************************************)
EXTENDS Integers, Sequences, FiniteSets

VARIABLES
    objects,    \* HittableList.objects
    hitCall,    \* the last HittableList::hit call and what it returned, or None
    camera,     \* the Camera of the render driver
    pixel,      \* the render driver's loop position: [j, i, s]
    sample,     \* the (u, v) and the ray of the driver's latest sample, or None
    prev,       \* the sample before it, or None
    pc,         \* where ray_color is: "idle", "call", "scatter", "return"
    ray,        \* ray_color's argument r of the innermost call
    depth,      \* ray_color's argument depth of the innermost call
    rec,        \* the HitRecord the innermost call is scattering, or None
    draw,       \* the latest Vec3::rand draw of rand_in_unit_sphere, or None
    stack,      \* the attenuation each suspended ray_color call multiplies by
    result,     \* the Color the innermost finished call returned
    trace       \* what the top-level call has done so far (history)

hitVars == <<objects, hitCall>>

camVars == <<camera, pixel, sample, prev>>

rcVars == <<pc, ray, depth, rec, draw, stack, result, trace>>

vars == <<objects, hitCall, camera, pixel, sample, prev,
          pc, ray, depth, rec, draw, stack, result, trace>>

\* ------------------------------------------------------------------ f64
\* Grid units per 1.0.  ray_color's t_min = 0.001 is one unit.
Scale == 10 * 10 * 10

Abs(x) == IF x < 0 THEN -x ELSE x

Sgn(x) == IF x < 0 THEN -1 ELSE 1

\* n / d rounded to the nearest integer, halves away from zero (d # 0).
Rnd(n, d) == Sgn(n) * Sgn(d) * ((2 * Abs(n) + Abs(d)) \div (2 * Abs(d)))

\* a * b on f64.
fmul(a, b) == Rnd(a * b, Scale)

\* a / b on f64.
fdiv(a, b) == Rnd(a * Scale, b)

RECURSIVE SqrtSearch(_, _, _)
\* The largest r in lo..hi with r * r <= n (lo * lo <= n).
SqrtSearch(n, lo, hi) ==
    IF lo >= hi THEN lo
    ELSE LET mid == (lo + hi + 1) \div 2
         IN  IF mid * mid <= n THEN SqrtSearch(n, mid, hi)
             ELSE SqrtSearch(n, lo, mid - 1)

\* floor(sqrt(n)) for n >= 0.
ISqrt(n) == SqrtSearch(n, 0, 46340)

\* f64::sqrt: the grid value nearest to sqrt(x / Scale).
fsqrt(x) ==
    LET n == x * Scale
        r == ISqrt(n)
    IN  IF n - r * r > r THEN r + 1 ELSE r

\* f64::powi.
RECURSIVE powi(_, _)
powi(x, n) == IF n = 1 THEN x ELSE fmul(powi(x, n - 1), x)

fmin(a, b) == IF a < b THEN a ELSE b

\* f64::clamp.
clamp(x, lo, hi) == IF x < lo THEN lo ELSE IF x > hi THEN hi ELSE x

One == Scale

\* ----------------------------------------------------------------- Vec3
Vec3New(e0, e1, e2) == <<e0, e1, e2>>

length_squared(v) == powi(v[1], 2) + powi(v[2], 2) + powi(v[3], 2)

length(v) == fsqrt(length_squared(v))

dot(a, b) == fmul(a[1], b[1]) + fmul(a[2], b[2]) + fmul(a[3], b[3])

cross(a, b) ==
    Vec3New(fmul(a[2], b[3]) - fmul(a[3], b[2]),
            fmul(a[3], b[1]) - fmul(a[1], b[3]),
            fmul(a[1], b[2]) - fmul(a[2], b[1]))

add(a, b) == Vec3New(a[1] + b[1], a[2] + b[2], a[3] + b[3])

sub(a, b) == Vec3New(a[1] - b[1], a[2] - b[2], a[3] - b[3])

\* Vec3 * Vec3, component-wise.
mul(a, b) == Vec3New(fmul(a[1], b[1]), fmul(a[2], b[2]), fmul(a[3], b[3]))

\* f64 * Vec3 and Vec3 * f64.
mul_f64(k, v) == Vec3New(fmul(k, v[1]), fmul(k, v[2]), fmul(k, v[3]))

\* Vec3 / f64.
div_f64(v, k) == Vec3New(fdiv(v[1], k), fdiv(v[2], k), fdiv(v[3], k))

neg(v) == Vec3New(-v[1], -v[2], -v[3])

as_unit_vector(v) == div_f64(v, length(v))

\* s = 1e-8 lies below the grid: its ceiling in grid units.
NearZeroS == (Scale + 100000000 - 1) \div 100000000

is_near_zero(v) ==
    Abs(v[1]) < NearZeroS /\ Abs(v[2]) < NearZeroS /\ Abs(v[3]) < NearZeroS

reflect(v, normal) == sub(v, mul_f64(fmul(2 * One, dot(v, normal)), normal))

refract(v, normal, refraction_ratio) ==
    LET cos_theta == fmin(dot(neg(v), normal), One)
        r_out_perp == mul_f64(refraction_ratio, add(v, mul_f64(cos_theta, normal)))
        r_out_parallel ==
            mul_f64(-fsqrt(Abs(One - length_squared(r_out_perp))), normal)
    IN  add(r_out_perp, r_out_parallel)

\* ------------------------------------------------------------------ Ray
RayNew(origin, direction) == [orig |-> origin, dir |-> as_unit_vector(direction)]

at(r, t) == add(r.orig, mul_f64(t, r.dir))

\* --------------------------------------------------------------- Option
None == [some |-> FALSE]

Some(x) == [some |-> TRUE, val |-> x]

\* ------------------------------------------------------------ HitRecord
\* Mutant of HitRecordNew: the normal is never turned to face the ray.
HitRecordNewNoFlip(r, t, p, mat, outward_normal) ==
    [t |-> t, p |-> p, normal |-> outward_normal, mat |-> mat,
     front_face |-> dot(r.dir, outward_normal) < 0]

HitRecordNew(r, t, p, mat, outward_normal) ==
    LET front_face == dot(r.dir, outward_normal) < 0
        normal == IF front_face THEN outward_normal ELSE neg(outward_normal)
    IN  [t |-> t, p |-> p, normal |-> normal, mat |-> mat, front_face |-> front_face]

\* --------------------------------------------------------------- Sphere
SphereNew(center, radius, mat) == [center |-> center, radius |-> radius, mat |-> mat]

\* The quadratic of Sphere::hit: a, half b, c and the discriminant.
Quadratic(s, r) ==
    LET oc == sub(r.orig, s.center)
        a == dot(r.dir, r.dir)
        hb == dot(oc, r.dir)
        c == dot(oc, oc) - powi(s.radius, 2)
    IN  [a |-> a, hb |-> hb, disc |-> powi(hb, 2) - fmul(a, c)]

\* The smaller root, (-hb - sqrtd) / a (discriminant >= 0).
RootNear(s, r) ==
    LET q == Quadratic(s, r) IN fdiv(-q.hb - fsqrt(q.disc), q.a)

\* The larger root, (-hb + sqrtd) / a (discriminant >= 0).
RootFar(s, r) ==
    LET q == Quadratic(s, r) IN fdiv(-q.hb + fsqrt(q.disc), q.a)

\* Mutant of OutOfRange: t_max itself is rejected too.
OutOfRangeUpperStrict(t, t_min, t_max) == t < t_min \/ t_max <= t

\* Whether Sphere::hit rejects t: t < t_min || t_max < t.
OutOfRange(t, t_min, t_max) == t < t_min \/ t_max < t

\* Mutant of SphereHit: the larger root is never tried.
SphereHitNearOnly(s, r, t_min, t_max) ==
    IF Quadratic(s, r).disc < 0 \/ OutOfRange(RootNear(s, r), t_min, t_max) THEN None
    ELSE LET t == RootNear(s, r)
             p == at(r, t)
         IN  Some(HitRecordNew(r, t, p, s.mat, div_f64(sub(p, s.center), s.radius)))

SphereHit(s, r, t_min, t_max) ==
    IF Quadratic(s, r).disc < 0 THEN None
    ELSE LET t1 == RootNear(s, r)
             t2 == RootFar(s, r)
             miss == OutOfRange(t1, t_min, t_max) /\ OutOfRange(t2, t_min, t_max)
             t == IF OutOfRange(t1, t_min, t_max) THEN t2 ELSE t1
             p == at(r, t)
             outward_normal == div_f64(sub(p, s.center), s.radius)
         IN  IF miss THEN None
             ELSE Some(HitRecordNew(r, t, p, s.mat, outward_normal))

\* ---------------------------------------------------------- HittableList
\* Mutant of HitLoopBody: the record is kept but closest stays at t_max.
HitLoopBodyKeepsBound(st, object, r, t_min) ==
    LET h == SphereHit(object, r, t_min, st.closest)
    IN  IF h.some THEN [closest |-> st.closest, closest_rec |-> h]
        ELSE st

\* One iteration of the loop of HittableList::hit: st = [closest, closest_rec].
HitLoopBody(st, object, r, t_min) ==
    LET h == SphereHit(object, r, t_min, st.closest)
    IN  IF h.some THEN [closest |-> h.val.t, closest_rec |-> h]
        ELSE st

RECURSIVE HitLoop(_, _, _, _, _)
\* The loop of HittableList::hit from object k on.
HitLoop(objs, k, st, r, t_min) ==
    IF k > Len(objs) THEN st
    ELSE HitLoop(objs, k + 1, HitLoopBody(st, objs[k], r, t_min), r, t_min)

HittableListHit(objs, r, t_min, t_max) ==
    HitLoop(objs, 1, [closest |-> t_max, closest_rec |-> None], r, t_min).closest_rec

\* ------------------------------------------------- materials (as values)
LambertianNew(albedo) == [kind |-> "Lambertian", albedo |-> albedo]

MetalNew(albedo, roughness) ==
    [kind |-> "Metal", albedo |-> albedo, roughness |-> clamp(roughness, 0, One)]

DielectricNew(ior) == [kind |-> "Dielectric", ior |-> ior]

\* f64::INFINITY, the t_max of ray_color: above every distance of the model.
INFINITY == 1000000000

\* ============================================================== SpecHit
\* The scene container on its own: add, clear and hit on chosen inputs.
MaxObjects == 3

\* The primitives add() is given.  SphA and SphB are first hit at the same
\* distance by a ray from the origin along -z; SphD holds the origin.
SphA == SphereNew(<<0, 0, -3000>>, 1000, LambertianNew(<<800, 300, 300>>))

SphB == SphereNew(<<0, 0, -4000>>, 2000, MetalNew(<<800, 600, 200>>, 0))

SphC == SphereNew(<<0, 0, -8000>>, 1000, DielectricNew(1500))

SphD == SphereNew(<<0, 0, 0>>, 5000, MetalNew(<<800, 800, 800>>, 1000))

SphE == SphereNew(<<0, 3000, -3000>>, 1000, LambertianNew(<<0, 1000, 1000>>))

SphereChoices == {SphA, SphB, SphC, SphD, SphE}

HitRays ==
    { RayNew(<<0, 0, 0>>, <<0, 0, -1000>>),
      RayNew(<<0, 0, 0>>, <<0, 3000, -4000>>),
      RayNew(<<0, 0, -3000>>, <<0, 0, -2000>>),
      RayNew(<<0, 0, 9000>>, <<0, 0, 1000>>) }

HitTMin == {1, 2000}

HitTMax == {2000, 5000, INFINITY}

\* No camera is built and no sample taken.
InitCam ==
    /\ camera = None
    /\ pixel = None
    /\ sample = None
    /\ prev = None

\* ray_color is not called.
InitRc ==
    /\ pc = "idle"
    /\ ray = None
    /\ depth = 0
    /\ rec = None
    /\ draw = None
    /\ stack = <<>>
    /\ result = None
    /\ trace = None

\* HittableList::new.
InitHit ==
    /\ objects = <<>>
    /\ hitCall = None
    /\ InitCam
    /\ InitRc

\* HittableList::add.
Add(object) ==
    /\ Len(objects) < MaxObjects
    /\ objects' = Append(objects, object)
    /\ hitCall' = None
    /\ UNCHANGED <<camVars, rcVars>>

\* HittableList::clear.
Clear ==
    /\ objects # <<>>
    /\ objects' = <<>>
    /\ hitCall' = None
    /\ UNCHANGED <<camVars, rcVars>>

\* HittableList::hit.
Hit(r, t_min, t_max) ==
    /\ hitCall' = Some([r |-> r, t_min |-> t_min, t_max |-> t_max,
                        ret |-> HittableListHit(objects, r, t_min, t_max)])
    /\ UNCHANGED <<objects, camVars, rcVars>>

NextHit ==
    \/ \E object \in SphereChoices : Add(object)
    \/ Clear
    \/ \E r \in HitRays, t_min \in HitTMin, t_max \in HitTMax :
           t_min < t_max /\ Hit(r, t_min, t_max)

SpecHit == InitHit /\ [][NextHit]_vars

\* ------------------------------------------------------ claims on SpecHit
\* The call the state holds, and what object k alone reports for it.
Q == hitCall.val

OwnHit(k) == SphereHit(objects[k], Q.r, Q.t_min, Q.t_max)

Hitters == {k \in 1..Len(objects) : OwnHit(k).some}

MinT == CHOOSE t \in {OwnHit(k).val.t : k \in Hitters} :
            \A k \in Hitters : t <= OwnHit(k).val.t

\* The orderings of the list: objects composed with each bijection on its indices.
Orderings(objs) ==
    LET n == Len(objs)
        bij == {f \in [1..n -> 1..n] : \A a, b \in 1..n : f[a] = f[b] => a = b}
    IN  {[k \in 1..n |-> objs[f[k]]] : f \in bij}

\* C1: HittableList.hit returns nothing exactly when no primitive reports a
\* hit for (t_min, t_max); otherwise the record's t is the least distance any
\* primitive reports for (t_min, t_max), and every ordering of the list
\* returns that same t.
C1_ClosestHit ==
    hitCall.some =>
        /\ Q.ret.some <=> Hitters # {}
        /\ Q.ret.some => Q.ret.val.t = MinT
        /\ \A objs \in Orderings(objects) :
               LET h == HittableListHit(objs, Q.r, Q.t_min, Q.t_max)
               IN  /\ h.some <=> Q.ret.some
                   /\ h.some => h.val.t = Q.ret.val.t

\* C1's case: two primitives report different distances, the nearer one later
\* in the list than the farther one.
C1_Witness ==
    /\ hitCall.some
    /\ \E a, b \in Hitters :
           a < b /\ OwnHit(b).val.t < OwnHit(a).val.t /\ Q.ret.val.t = OwnHit(b).val.t

\* Outward normals HitRecord::new is given besides those of Sphere::hit.
NormalChoices ==
    { <<0, 0, 1000>>, <<0, 0, -1000>>, <<1000, 0, 0>>, <<0, 600, 800>>,
      <<0, -800, 600>>, <<577, 577, 577>>, <<0, 800, 600>> }

\* The record h made for the ray r and outward_normal faces the ray.
FrontFacing(r, h, outward_normal) ==
    /\ dot(neg(r.dir), h.normal) >= 0
    /\ h.front_face <=> dot(r.dir, outward_normal) < 0
    /\ h.normal = IF h.front_face THEN outward_normal ELSE neg(outward_normal)

\* C4: every HitRecord of HitRecord::new faces the ray: dot(-direction,
\* normal) >= 0, front_face is dot(direction, outward_normal) < 0, and normal
\* is outward_normal when front_face and its negation otherwise.  Checked on
\* the record of every primitive the call hits and on chosen outward normals.
C4_FrontFacing ==
    hitCall.some =>
        /\ \A k \in Hitters :
               LET h == OwnHit(k).val
               IN  FrontFacing(Q.r, h,
                       div_f64(sub(h.p, objects[k].center), objects[k].radius))
        /\ \A n \in NormalChoices :
               FrontFacing(Q.r, HitRecordNew(Q.r, Q.t_min, Q.r.orig, SphA.mat, n), n)

\* C4's case: the call returns a record of a surface hit from inside.
C4_Witness ==
    /\ hitCall.some
    /\ Q.ret.some
    /\ ~Q.ret.val.front_face
    /\ dot(Q.r.dir, Q.ret.val.normal) < 0

\* Sphere.hit as C5 words it, with `within` deciding what lies in the interval.
RootRule(k, within(_)) ==
    LET s == objects[k]
        h == OwnHit(k)
        t1 == RootNear(s, Q.r)
        t2 == RootFar(s, Q.r)
    IN  IF Quadratic(s, Q.r).disc < 0 THEN ~h.some
        ELSE /\ within(t1) => h.some /\ h.val.t = t1
             /\ ~within(t1) /\ within(t2) => h.some /\ h.val.t = t2
             /\ ~within(t1) /\ ~within(t2) => ~h.some
             /\ h.some => /\ h.val.t \in {t1, t2}
                          /\ within(h.val.t)
                          /\ \A t \in {t1, t2} : within(t) => h.val.t <= t

InOpen(t) == Q.t_min < t /\ t < Q.t_max

InClosed(t) == Q.t_min <= t /\ t <= Q.t_max

\* C5 as stated: no hit on a negative discriminant, else the smaller root when
\* it lies in the open interval (t_min, t_max), else the larger root when that
\* lies in it, else no hit.
C5_OpenInterval == hitCall.some => \A k \in 1..Len(objects) : RootRule(k, InOpen)

\* C5 amended: the same rule with the interval closed, t_min <= t <= t_max.
C5_ClosedInterval == hitCall.some => \A k \in 1..Len(objects) : RootRule(k, InClosed)

\* C5's case: the ray starts inside a sphere, whose smaller root lies below
\* t_min, and the call reports the larger root.
C5_Witness ==
    /\ hitCall.some
    /\ \E k \in Hitters :
           /\ RootNear(objects[k], Q.r) < Q.t_min
           /\ OwnHit(k).val.t = RootFar(objects[k], Q.r)
           /\ Q.ret.val.t = OwnHit(k).val.t

\* The record the scan holds after the first n objects.
KeptAfter(n) == HittableListHit(SubSeq(objects, 1, n), Q.r, Q.t_min, Q.t_max)

\* The objects among the first n that report the least distance among them.
Nearest(n) ==
    {k \in Hitters : k <= n /\ \A m \in Hitters : m <= n => OwnHit(k).val.t <= OwnHit(m).val.t}

\* C9 as stated: the record kept is replaced only by a later primitive that is
\* strictly nearer, so among primitives at the same least distance the
\* earliest in the list is kept and returned.
C9_FirstFoundWins ==
    hitCall.some =>
        \A n \in 1..Len(objects) :
            Nearest(n) # {} =>
                KeptAfter(n) = OwnHit(CHOOSE k \in Nearest(n) : \A m \in Nearest(n) : k <= m)

\* C9 amended: a later primitive replaces the record when its distance is
\* less than or equal to the closest so far, so among primitives at the same
\* least distance the latest in the list is kept and returned.
C9_LastFoundWins ==
    hitCall.some =>
        \A n \in 1..Len(objects) :
            /\ Nearest(n) # {} =>
                   KeptAfter(n) = OwnHit(CHOOSE k \in Nearest(n) : \A m \in Nearest(n) : k >= m)
            /\ n \in Hitters =>
                   (KeptAfter(n) = OwnHit(n)) <=> (n \in Nearest(n))

\* C9's case: two different primitives report the same least distance and
\* the call returns the later one's record.
C9_Witness ==
    /\ hitCall.some
    /\ \E a, b \in Nearest(Len(objects)) :
           /\ a < b
           /\ objects[a].mat # objects[b].mat
           /\ Q.ret.val.mat = objects[b].mat
           /\ \A m \in Nearest(Len(objects)) : m <= b

\* =============================================================== Camera
\* tan(v_fov.to_radians() / 2.0) at the fields of view used (degrees).
TanHalfFov(v_fov) == CASE v_fov = 30 * One -> 268 [] v_fov = 90 * One -> One

CameraNew(look_from, look_at, up, v_fov, aspect_ratio, aperture, focus_dist) ==
    LET h == TanHalfFov(v_fov)
        viewport_height == fmul(2 * One, h)
        viewport_width == fmul(aspect_ratio, viewport_height)
        w == as_unit_vector(sub(look_from, look_at))
        u == as_unit_vector(cross(up, w))
        v == cross(w, u)
        origin == look_from
        horizontal == mul_f64(fmul(focus_dist, viewport_width), u)
        vertical == mul_f64(fmul(focus_dist, viewport_height), v)
        lower_left_corner ==
            sub(sub(sub(origin, div_f64(horizontal, 2 * One)),
                    div_f64(vertical, 2 * One)),
                mul_f64(focus_dist, w))
    IN  [origin |-> origin, horizontal |-> horizontal, vertical |-> vertical,
         lower_left_corner |-> lower_left_corner,
         lens_radius |-> fdiv(aperture, 2 * One), u |-> u, v |-> v, w |-> w]

\* Mutant of CameraGetRay: the disk point is not scaled by lens_radius.
CameraGetRayUnscaledLens(cam, s, t, disk) ==
    LET offset == add(mul_f64(disk[1], cam.u), mul_f64(disk[2], cam.v))
    IN  RayNew(add(cam.origin, offset),
               sub(sub(add(add(cam.lower_left_corner, mul_f64(s, cam.horizontal)),
                           mul_f64(t, cam.vertical)),
                       cam.origin),
                   offset))

\* Camera::get_ray, given the point rand_in_unit_disk returned.
CameraGetRay(cam, s, t, disk) ==
    LET rd == mul_f64(cam.lens_radius, disk)
        offset == add(mul_f64(rd[1], cam.u), mul_f64(rd[2], cam.v))
    IN  RayNew(add(cam.origin, offset),
               sub(sub(add(add(cam.lower_left_corner, mul_f64(s, cam.horizontal)),
                           mul_f64(t, cam.vertical)),
                       cam.origin),
                   offset))

\* What Vec3::new(gen_range(-1.0..1.0), gen_range(-1.0..1.0), 0.0) may draw.
DiskDraws ==
    { <<900, 900, 0>>, <<0, 0, 0>>, <<500, -500, 0>>, <<-300, 800, 0>> }

\* What the loop of rand_in_unit_disk may return: a draw it does not reject.
rand_in_unit_disk == {p \in DiskDraws : ~(length_squared(p) >= One)}

\* ============================================================== SpecCam
\* The render driver's sampling: the loops of main over rows, columns and
\* samples, and the (u, v) and camera ray of each sample.
ImageWidth == 4

SamplesPerPixel == 2

\* aspect_ratio = 16.0 / 9.0.
AspectRatio == fdiv(16 * One, 9 * One)

\* (image_width as f64 / aspect_ratio) as u32.
ImageHeight == fdiv(ImageWidth * One, AspectRatio) \div One

LookFrom == <<-3000, 1000, 2000>>

LookAt == <<0, 0, -1000>>

\* The apertures the driver's camera is built with; main has 0.1.
Apertures == {0, 100, 2000}

MainCamera(aperture) ==
    CameraNew(LookFrom, LookAt, <<0, One, 0>>, 30 * One, AspectRatio, aperture,
              length(sub(LookFrom, LookAt)))

\* What rng.gen_range(0.0..1.0) may draw.
Jitters == {0, 999}

\* The list is left empty and hit is not called.
InitHitIdle ==
    /\ objects = <<>>
    /\ hitCall = None

\* main up to its render loop: the camera is built, j = image_height - 1.
InitCamera ==
    /\ \E aperture \in Apertures : camera = MainCamera(aperture)
    /\ pixel = [j |-> ImageHeight - 1, i |-> 0, s |-> 0]
    /\ sample = None
    /\ prev = None
    /\ InitHitIdle
    /\ InitRc

\* The loop position after one more sample: s, then i, then j downwards.
NextPixel(px) ==
    IF px.s + 1 < SamplesPerPixel THEN [px EXCEPT !.s = px.s + 1]
    ELSE IF px.i + 1 < ImageWidth THEN [px EXCEPT !.s = 0, !.i = px.i + 1]
    ELSE [j |-> px.j - 1, i |-> 0, s |-> 0]

\* u of main: (i as f64 + jitter) / (image_width - 1) as f64.
PixelU(i, jitter) == fdiv(i * One + jitter, (ImageWidth - 1) * One)

\* v of main: (j as f64 + jitter) / (image_height - 1) as f64.
PixelV(j, jitter) == fdiv(j * One + jitter, (ImageHeight - 1) * One)

\* One pass of the sample loop of main: u, v and camera.get_ray(u, v).
Sample(ju, jv, disk) ==
    /\ pixel.j >= 0
    /\ LET u == PixelU(pixel.i, ju)
           v == PixelV(pixel.j, jv)
       IN  sample' = Some([u |-> u, v |-> v, i |-> pixel.i, j |-> pixel.j,
                           disk |-> disk, r |-> CameraGetRay(camera, u, v, disk)])
    /\ prev' = sample
    /\ pixel' = NextPixel(pixel)
    /\ UNCHANGED <<camera, hitVars, rcVars>>

NextCam ==
    \E ju \in Jitters, jv \in Jitters, disk \in rand_in_unit_disk : Sample(ju, jv, disk)

SpecCam == InitCamera /\ [][NextCam]_vars

\* ------------------------------------------------------ claims on SpecCam
\* C6: with aperture = 0, two get_ray calls with the same (s, t) return the
\* same ray, from the camera's origin, whatever the lens disk sampler drew.
C6_PinholeDeterministic ==
    camera = MainCamera(0) /\ sample.some /\ prev.some
        /\ sample.val.u = prev.val.u /\ sample.val.v = prev.val.v =>
            /\ sample.val.r = prev.val.r
            /\ sample.val.r.orig = camera.origin

\* C6's case: aperture 0, the same (s, t) twice and two different lens draws.
C6_Witness ==
    /\ camera = MainCamera(0)
    /\ sample.some /\ prev.some
    /\ sample.val.u = prev.val.u /\ sample.val.v = prev.val.v
    /\ sample.val.disk # prev.val.disk
    /\ sample.val.r = prev.val.r

\* C10: the u and v the driver passes to get_ray both lie in [0, 1].
C10_UnitSquare ==
    sample.some =>
        /\ 0 <= sample.val.u /\ sample.val.u <= One
        /\ 0 <= sample.val.v /\ sample.val.v <= One

\* ============================================================ Materials
\* Lambertian::scatter, given the vector rand_unit_vector returned.
LambertianScatter(mat, r, h, unit) ==
    LET sum == add(h.normal, unit)
        scatter_dir == IF is_near_zero(sum) THEN h.normal ELSE sum
    IN  Some([r |-> RayNew(h.p, scatter_dir), attenuation |-> mat.albedo])

\* Mutant of MetalScatter: the scattered ray is returned whatever its side.
MetalScatterNeverAbsorbs(mat, r, h, unit) ==
    Some([r |-> RayNew(h.p, add(reflect(r.dir, h.normal), mul_f64(mat.roughness, unit))),
          attenuation |-> mat.albedo])

\* Metal::scatter, given the vector rand_unit_vector returned.
MetalScatter(mat, r, h, unit) ==
    LET reflected_dir == reflect(r.dir, h.normal)
        r_scattered == RayNew(h.p, add(reflected_dir, mul_f64(mat.roughness, unit)))
    IN  IF dot(r_scattered.dir, h.normal) > 0
        THEN Some([r |-> r_scattered, attenuation |-> mat.albedo])
        ELSE None

\* Dielectric::reflectance, Schlick's approximation.
reflectance(cosine, ior) ==
    LET r0 == powi(fdiv(One - ior, One + ior), 2)
    IN  r0 + fmul(One - r0, powi(One - cosine, 5))

\* Dielectric::scatter, given the value rand::random::<f64>() returned.
DielectricScatter(mat, r, h, uniform) ==
    LET refraction_ratio == IF h.front_face THEN fdiv(One, mat.ior) ELSE mat.ior
        cos_theta == fmin(dot(neg(r.dir), h.normal), One)
        sin_theta == fsqrt(One - powi(cos_theta, 2))
        total_internal_reflection == fmul(refraction_ratio, sin_theta) > One
        r_direction ==
            IF total_internal_reflection
                  \/ reflectance(cos_theta, refraction_ratio) > uniform
            THEN reflect(r.dir, h.normal)
            ELSE refract(r.dir, h.normal, refraction_ratio)
    IN  Some([r |-> RayNew(h.p, r_direction), attenuation |-> <<One, One, One>>])

\* rec.mat.scatter(r, &rec): the dynamic dispatch on the material.  rnd holds
\* what the random sources returned: unit (rand_unit_vector), uniform (f64).
MaterialScatter(mat, r, h, rnd) ==
    CASE mat.kind = "Lambertian" -> LambertianScatter(mat, r, h, rnd.unit)
      [] mat.kind = "Metal" -> MetalScatter(mat, r, h, rnd.unit)
      [] mat.kind = "Dielectric" -> DielectricScatter(mat, r, h, rnd.uniform)

\* ================================================================= Spec
\* ray_color on the scene of main, one top-level call per behaviour.
MaxDepth == 3

\* The world of main; the ground sphere's radius 100 is 10 here.
MainWorld ==
    << SphereNew(<<0, -10500, -1000>>, 10000, MetalNew(<<800, 800, 800>>, 1000)),
       SphereNew(<<0, 0, -1000>>, 500, LambertianNew(<<0, 1000, 1000>>)),
       SphereNew(<<-1100, 0, -1000>>, 500, DielectricNew(1500)),
       SphereNew(<<1100, 0, -1000>>, 500, MetalNew(<<800, 600, 200>>, 0)) >>

\* The worlds ray_color is called with: that of main, and an empty one.
Worlds == {MainWorld, <<>>}

\* The camera rays ray_color is first called with.
FirstRays ==
    { CameraGetRay(MainCamera(100), u, v, <<0, 0, 0>>) :
          u \in {300, 500, 700}, v \in {0, 500, 800} }

\* What Vec3::rand(-1.0, 1.0) may draw in rand_in_unit_sphere.
SphereDraws ==
    { <<900, 900, 900>>, <<-800, -800, 0>>, <<500, 0, 0>>, <<0, -500, 0>>,
      <<-300, 400, 100>>, <<0, 0, 999>> }

\* What rand::random::<f64>() may draw.
UniformDraws == {0, 999}

Black == <<0, 0, 0>>

\* The sky of ray_color for a ray that hits nothing.
Background(r) ==
    LET t == fmul(500, r.dir[2] + One)
    IN  add(mul_f64(One - t, <<One, One, One>>), mul_f64(t, <<500, 700, 1000>>))

\* main calls ray_color(&r, &world, max_depth).
Init ==
    /\ objects \in Worlds
    /\ hitCall = None
    /\ InitCam
    /\ pc = "call"
    /\ ray \in FirstRays
    /\ depth \in 0..MaxDepth
    /\ rec = None
    /\ draw = None
    /\ stack = <<>>
    /\ result = None
    /\ trace = [depth0 |-> depth, hits |-> 0, scatters |-> 0, atts |-> <<>>,
                end |-> "running", bg |-> None, last |-> None]

\* Mutant of DepthExhausted: depth 0 does not end the recursion.
DepthExhaustedBelowZero(d) == d < 0

\* Mutant of RecursiveDepth: the recursive call keeps its caller's depth.
RecursiveDepthSame(d) == d

\* Mutant of Attenuate: the attenuation is dropped.
AttenuateDropped(attenuation, inner) == inner

\* The test `depth == 0` that ends the recursion.
DepthExhausted(d) == d = 0

\* The depth of the recursive call: depth - 1.
RecursiveDepth(d) == d - 1

\* What a call returns once its recursive call has: attenuation * inner.
Attenuate(attenuation, inner) == mul(attenuation, inner)

\* ray_color from its entry to the scatter call or to a return, where h is
\* what world.hit(r, 0.001, INFINITY) returns when depth is not 0.
RayColorEnter(h) ==
    /\ pc = "call"
    /\ IF DepthExhausted(depth)
       THEN /\ result' = Black
            /\ pc' = "return"
            /\ rec' = None
            /\ trace' = [trace EXCEPT !.end = "exhausted"]
       ELSE IF h.some
            THEN /\ rec' = h
                 /\ pc' = "scatter"
                 /\ result' = result
                 /\ trace' = [trace EXCEPT !.hits = @ + 1]
            ELSE /\ rec' = None
                 /\ pc' = "return"
                 /\ result' = Background(ray)
                 /\ trace' = [trace EXCEPT !.hits = @ + 1, !.end = "miss",
                                           !.bg = Some(Background(ray))]
    /\ draw' = None
    /\ UNCHANGED <<ray, depth, stack, hitVars, camVars>>

\* ray_color on the world of the state.
RayColorCall == RayColorEnter(HittableListHit(objects, ray, 1, INFINITY))

\* Whether the material's scatter calls rand_unit_vector.
UsesUnitVector(mat) == mat.kind \in {"Lambertian", "Metal"}

\* rand_in_unit_sphere draws a point outside the unit sphere and loops.
RejectDraw ==
    /\ pc = "scatter"
    /\ UsesUnitVector(rec.val.mat)
    /\ \E p \in SphereDraws : length_squared(p) >= One /\ draw' = Some(p)
    /\ UNCHANGED <<pc, ray, depth, rec, stack, result, trace, hitVars, camVars>>

\* What the material's random source can return: rand_unit_vector a point
\* that rand_in_unit_sphere accepts, normalised; random::<f64>() a uniform.
RandomSources(mat) ==
    IF UsesUnitVector(mat)
    THEN {[p |-> p, unit |-> as_unit_vector(p), uniform |-> 0] :
              p \in {q \in SphereDraws : ~(length_squared(q) >= One)}}
    ELSE {[p |-> <<0, 0, 0>>, unit |-> <<0, 0, 0>>, uniform |-> f] : f \in UniformDraws}

\* What ray_color does with out, the result of rec.mat.scatter(r, &rec) on
\* the random values rnd: the recursive call ray_color(&r_scattered, world,
\* depth - 1), or return black.
RayColorScattered(rnd, out) ==
    LET call == [mat |-> rec.val.mat, r_in |-> ray, rec |-> rec.val, rnd |-> rnd,
                 out |-> out]
    IN  /\ pc = "scatter"
        /\ draw' = IF UsesUnitVector(rec.val.mat) THEN Some(rnd.p) ELSE None
        /\ IF out.some
           THEN /\ stack' = Append(stack, out.val.attenuation)
                /\ ray' = out.val.r
                /\ depth' = RecursiveDepth(depth)
                /\ pc' = "call"
                /\ result' = result
                /\ trace' = [trace EXCEPT !.scatters = @ + 1, !.last = Some(call),
                                 !.atts = Append(@, out.val.attenuation)]
           ELSE /\ stack' = stack
                /\ ray' = ray
                /\ depth' = depth
                /\ pc' = "return"
                /\ result' = Black
                /\ trace' = [trace EXCEPT !.scatters = @ + 1, !.last = Some(call),
                                 !.end = "absorbed"]
        /\ rec' = None
        /\ UNCHANGED <<hitVars, camVars>>

\* The material of the record scatters the ray of the state.
Scatter ==
    /\ pc = "scatter"
    /\ \E rnd \in RandomSources(rec.val.mat) :
           RayColorScattered(rnd, MaterialScatter(rec.val.mat, ray, rec.val, rnd))

\* A suspended call resumes: attenuation * (what the recursive call returned).
Return ==
    /\ pc = "return"
    /\ stack # <<>>
    /\ result' = Attenuate(stack[Len(stack)], result)
    /\ stack' = SubSeq(stack, 1, Len(stack) - 1)
    /\ depth' = depth + 1
    /\ UNCHANGED <<pc, ray, rec, draw, trace, hitVars, camVars>>

\* The top-level call has returned.
Done == pc = "return" /\ stack = <<>>

Next == RayColorCall \/ RejectDraw \/ Scatter \/ Return

Spec == Init /\ [][Next]_vars

\* ============================================================= SpecAny
\* ray_color on any scene and any materials: world.hit and scatter return
\* whatever their types allow.
AnyRays ==
    { [orig |-> <<0, 0, 0>>, dir |-> <<0, 0, -1000>>],
      [orig |-> <<0, 0, -2000>>, dir |-> <<0, 600, 800>>] }

AnyRecords ==
    { [t |-> 2000, p |-> <<0, 0, -2000>>, normal |-> <<0, 0, 1000>>,
       mat |-> mat, front_face |-> TRUE] :
          mat \in {SphA.mat, SphB.mat, SphC.mat} }

AnyHits == {None} \cup {Some(h) : h \in AnyRecords}

AnyAttenuations == {<<800, 600, 200>>, <<One, One, One>>}

AnyScatters ==
    {None} \cup {Some([r |-> r, attenuation |-> a]) : r \in AnyRays, a \in AnyAttenuations}

AnyRandom == {[p |-> <<0, 0, 999>>, unit |-> <<0, 0, One>>, uniform |-> 0]}

InitAny ==
    /\ objects = <<>>
    /\ hitCall = None
    /\ InitCam
    /\ pc = "call"
    /\ ray \in AnyRays
    /\ depth \in 0..MaxDepth
    /\ rec = None
    /\ draw = None
    /\ stack = <<>>
    /\ result = None
    /\ trace = [depth0 |-> depth, hits |-> 0, scatters |-> 0, atts |-> <<>>,
                end |-> "running", bg |-> None, last |-> None]

AnyCall == \E h \in AnyHits : RayColorEnter(h)

AnyScatter == \E rnd \in AnyRandom, out \in AnyScatters : RayColorScattered(rnd, out)

NextAny == AnyCall \/ RejectDraw \/ AnyScatter \/ Return

SpecAny == InitAny /\ [][NextAny]_vars

\* rand_in_unit_sphere accepts a draw in the end, and the program runs on.
FairSpecAny ==
    SpecAny /\ WF_vars(AnyCall) /\ WF_vars(AnyScatter) /\ WF_vars(Return)

\* ----------------------------------------- claims on Spec and FairSpecAny
\* C2: a ray_color call with depth = 0 returns black at once: it neither
\* intersects the scene nor invokes a material's scatter.
C2_DepthZeroBlack ==
    [][pc = "call" /\ depth = 0 =>
           /\ pc' = "return"
           /\ result' = Black
           /\ trace'.hits = trace.hits
           /\ trace'.scatters = trace.scatters
           /\ stack' = stack]_vars

\* C2's case: a top-level call with depth = 0 has returned black, with the
\* scene never intersected.
C2_Witness ==
    /\ Done
    /\ trace.depth0 = 0
    /\ objects = MainWorld
    /\ result = Black
    /\ trace.hits = 0 /\ trace.scatters = 0

\* Each call runs at the depth of its caller less one; a top-level call at
\* depth d intersects the scene at most d times and scatters at most d
\* times; after a miss, an absorption or depth 0 no call follows.
DepthBounded ==
    /\ depth + Len(stack) = trace.depth0
    /\ depth >= 0
    /\ trace.hits <= trace.depth0
    /\ trace.scatters <= trace.depth0
    /\ trace.scatters <= trace.hits
    /\ trace.end # "running" => pc = "return"

\* C3: ray_color(ray, scene, d) terminates, within the bounds of
\* DepthBounded, given that rand_in_unit_sphere accepts a draw in the end.
C3_Terminates == []DepthBounded /\ <>Done

\* C3's case: a call that used its whole depth, MaxDepth intersections and
\* scatters, and has returned.
C3_Witness ==
    /\ Done
    /\ trace.depth0 = MaxDepth
    /\ trace.hits = MaxDepth
    /\ trace.scatters = MaxDepth
    /\ trace.end = "exhausted"

\* The direction Metal::scatter gives its candidate ray in the call c.
MetalDirection(c) ==
    RayNew(c.rec.p, add(reflect(c.r_in.dir, c.rec.normal),
                        mul_f64(c.mat.roughness, c.rnd.unit))).dir

\* C7: only Metal absorbs, and exactly when dot(new_direction, normal) <= 0;
\* Lambertian and Dielectric always continue.  A continuation starts at the
\* hit point; its attenuation is the albedo, and (1,1,1) for Dielectric.
C7_ScatterOutcome ==
    trace.last.some =>
        LET c == trace.last.val
        IN  /\ ~c.out.some => c.mat.kind = "Metal"
            /\ c.mat.kind = "Metal" =>
                   (~c.out.some <=> dot(MetalDirection(c), c.rec.normal) <= 0)
            /\ c.mat.kind \in {"Lambertian", "Dielectric"} => c.out.some
            /\ c.out.some =>
                   /\ c.out.val.r.orig = c.rec.p
                   /\ c.out.val.attenuation =
                          IF c.mat.kind = "Dielectric" THEN <<One, One, One>>
                          ELSE c.mat.albedo

\* C7's case: a Metal absorbed the ray.
C7_Witness ==
    /\ trace.last.some
    /\ trace.last.val.mat.kind = "Metal"
    /\ ~trace.last.val.out.some
    /\ trace.end = "absorbed"

RECURSIVE RunningAttenuation(_, _)
\* The loop's running attenuation after the first n scatters: it starts at
\* (1,1,1) and is multiplied by each scatter's attenuation in turn.
RunningAttenuation(atts, n) ==
    IF n = 0 THEN <<One, One, One>>
    ELSE mul(RunningAttenuation(atts, n - 1), atts[n])

\* What the explicit loop returns for the outcomes of the trace.
LoopColor ==
    IF trace.end = "miss"
    THEN mul(RunningAttenuation(trace.atts, Len(trace.atts)), trace.bg.val)
    ELSE Black

RECURSIVE NestedProduct(_, _, _)
\* a[k] * (a[k+1] * ( ... * (a[n] * c))).
NestedProduct(atts, k, c) ==
    IF k > Len(atts) THEN c
    ELSE mul(atts[k], NestedProduct(atts, k + 1, c))

\* Whether two colours differ by at most n grid units in each component.
Within(a, b, n) == \A k \in 1..3 : Abs(a[k] - b[k]) <= n

\* C8 as stated: the recursive ray_color returns the very colour of the loop.
C8_SameAsLoop == Done => result = LoopColor

\* C8 amended: ray_color returns black exactly when the loop does, and after
\* a miss the attenuations multiplied from the innermost call outwards,
\* a1 * (a2 * ... (an * background)): the loop's colour exactly after at most
\* one scatter, and to within rounding after more.
C8_LoopUpToRounding ==
    Done =>
        /\ trace.end # "miss" => result = Black /\ LoopColor = Black
        /\ trace.end = "miss" => result = NestedProduct(trace.atts, 1, trace.bg.val)
        /\ Len(trace.atts) <= 1 => result = LoopColor
        /\ Within(result, LoopColor, Len(trace.atts))

\* C8's case: a call that scattered twice or more and then missed.
C8_Witness ==
    /\ Done
    /\ trace.end = "miss"
    /\ Len(trace.atts) >= 2
    /\ result # Black

====
